---- MODULE Spec2Model ----
(***************************************************************************)
(* Model of the Smart_Produce_data updaters: one incremental CSV store per *)
(* provider (ERA5, legacy ERA5, NASA POWER, Open-Meteo, IPMA), refreshed   *)
(* by a run that derives a date range, plans fetch windows, fetches them   *)
(* one at a time and merges what it got into the store.                    *)
(*                                                                         *)
(* Dates are day numbers, day 0 = 2024-01-01.  A record is [ts, ver]: its  *)
(* timestamp and the edition of the upstream dataset it was read from, so  *)
(* that an existing row and an incoming row for one timestamp differ.      *)
(* The providers share no state, so a behaviour follows one provider,      *)
(* chosen in Init.                                                         *)
(***************************************************************************)
EXTENDS Integers, Sequences, FiniteSets, TLC

VARIABLES
    prov,       \* the provider script this behaviour runs
    today,      \* date.today()
    upstream,   \* the provider's dataset: [rows: days in serving order, ver: edition]
    store,      \* the CSV store: [exists, rows]
    pc,         \* "idle" | "fetch"
    argv,       \* command-line arguments of the current run (Open-Meteo)
    range,      \* [set, lo, hi]: start_date / end_date computed by the run
    plan,       \* the windows the fetch loop iterates over
    wi,         \* index in plan of the next window
    frames,     \* all_frames / all_new / all_chunks
    requests,   \* windows handed to the upstream fetch in this run
    disk,       \* downloaded files present on disk
    doneFiles,  \* files written by downloads of chunks whose processing ended
    anyFailed,  \* some window of this run failed
    skipped,    \* windows of this run whose fetch or processing failed
    served,     \* every fetch of this run returned the provider's data
    status,     \* "none" | "running" | "returned" | "crash"
    wrote,      \* the run rewrote the store
    msg,        \* last message printed by main
    prevStore,  \* the store as the run found it
    owed,       \* windows the previous run skipped while it persisted later dates
    lastBatch,  \* df_new handed to the merge
    envSame,    \* upstream unchanged since the last clean run ended
    repeat,     \* this run directly repeats a clean run on unchanged upstream
    uvDf,       \* add_uv_to_df: the batch passed in
    uvSrc,      \* add_uv_to_df: what fetch_nasa_uv_daily would return
    uvOut,      \* add_uv_to_df: the batch returned
    uvCalls,    \* add_uv_to_df: secondary fetches made
    uvPc,       \* "in" | "out"
    allPc,      \* update_all.main: "start" | "loop" | "abort" | "done"
    si,         \* update_all.main: index in scripts of the next script
    invoked,    \* update_all.main: scripts handed to subprocess.run, in order
    log,        \* update_all.main: [script, rc, line] of each finished run_script
    aggDf,      \* _process_downloaded_nc: the samples, [cols, rows]
    aggOut,     \* _process_downloaded_nc: df_daily returned
    aggPc       \* "in" | "out"

vars == <<prov, today, upstream, store, pc, argv, range, plan, wi, frames,
          requests, disk, doneFiles, anyFailed, skipped, served, status, wrote, msg,
          prevStore, owed, lastBatch, envSame, repeat, uvDf, uvSrc, uvOut, uvCalls, uvPc,
          allPc, si, invoked, log, aggDf, aggOut, aggPc>>

runVars == <<prov, today, upstream, store, pc, argv, range, plan, wi, frames,
             requests, disk, doneFiles, anyFailed, skipped, served, status, wrote,
             msg, prevStore, owed, lastBatch, envSame, repeat>>

uvVars == <<uvDf, uvSrc, uvOut, uvCalls, uvPc>>

allVars == <<allPc, si, invoked, log>>

aggVars == <<aggDf, aggOut, aggPc>>

\* what a run of one updater script leaves alone
sideVars == <<uvVars, allVars, aggVars>>

-----------------------------------------------------------------------------
(* Bounds of the model *)

MaxRows == 2
MaxVer == 2
Horizon == 500

(* Program constants *)

Epoch == 0
ERA5_LAG == 5
NASA_LAG == 5
OPENMETEO_LAG == 1
LEGACY_LAG == 3
CHUNK_DAYS == 30
LEGACY_STEP == 30
NASA_MONTHS == 6

Providers == {"era5", "era5_legacy", "nasa", "openmeteo", "ipma"}

\* Days on which the upstream may hold data: two in the first window of every
\* planner and the lag-safe end date of ERA5 on day 50 (NASA: on day 250, which
\* lies in its second 6-month window).
DataDays(p) == IF p = "nasa" THEN {0, 1, 245} ELSE {0, 1, 45}

\* Values of date.today(): day 50 = 2024-02-20, day 70 = 2024-03-11, day 100 =
\* 2024-04-10, day 250 = 2024-09-07.  They give ERA5 plans of 2 and 4 months,
\* NASA plans of 1 and 2 six-month chunks, Open-Meteo a plan of 3 chunks; IPMA
\* does not read the date.
Todays(p) ==
    CASE p = "nasa" -> {50, 250}
      [] p = "openmeteo" -> {70}
      [] p = "ipma" -> {50}
      [] OTHER -> {50, 100}

\* Command lines of update_openmeteo.py: no dates, or a start and an end
ArgChoices == {<<>>, <<60, 45>>}

Min(a, b) == IF a < b THEN a ELSE b

-----------------------------------------------------------------------------
(* Calendar: datetime / pandas date arithmetic on day numbers *)

IsLeap(y) == (y % 4 = 0 /\ y % 100 # 0) \/ y % 400 = 0

DaysInMonth(y, m) ==
    IF m = 2 THEN (IF IsLeap(y) THEN 29 ELSE 28)
    ELSE IF m \in {4, 6, 9, 11} THEN 30 ELSE 31

\* Months are counted from January 2024 = 0.
YearOfMonth(mi) == 2024 + (mi \div 12)
MonthNo(mi) == (mi % 12) + 1

RECURSIVE MonthStart(_)
MonthStart(mi) ==
    IF mi = 0 THEN 0
    ELSE MonthStart(mi - 1) + DaysInMonth(YearOfMonth(mi - 1), MonthNo(mi - 1))

RECURSIVE MonthFrom(_, _)
MonthFrom(d, mi) == IF d < MonthStart(mi + 1) THEN mi ELSE MonthFrom(d, mi + 1)

\* the calendar of the days the model's dates range over
Calendar == [d \in 0..Horizon |-> MonthFrom(d, 0)]

\* (d.year, d.month) of day d, as a month count
MonthOf(d) == Calendar[d]
DayOfMonth(d) == d - MonthStart(MonthOf(d)) + 1

\* strftime("%Y%m%d") read as a number: the order of the 8-character strings
Ymd(d) == YearOfMonth(MonthOf(d)) * 10000 + MonthNo(MonthOf(d)) * 100 + DayOfMonth(d)

\* d + pd.DateOffset(months=k): same day of month, clipped to the month's end
AddMonths(d, k) ==
    LET mi == MonthOf(d) + k
    IN  MonthStart(mi) + Min(DayOfMonth(d), DaysInMonth(YearOfMonth(mi), MonthNo(mi))) - 1

-----------------------------------------------------------------------------
(* Frames: sequences of records [ts, ver] *)

TsOf(rows) == {rows[i].ts : i \in DOMAIN rows}

MaxTs(rows) == CHOOSE t \in TsOf(rows) : \A u \in TsOf(rows) : u <= t

RECURSIVE Concat(_)
Concat(fs) == IF fs = <<>> THEN <<>> ELSE Head(fs) \o Concat(Tail(fs))

\* indices of rows that survive drop_duplicates(subset=[ts], keep=...)
KeptFirst(rows) == {i \in DOMAIN rows : \A j \in DOMAIN rows : j < i => rows[j].ts # rows[i].ts}
KeptLast(rows) == {i \in DOMAIN rows : \A j \in DOMAIN rows : j > i => rows[j].ts # rows[i].ts}

RECURSIVE Pick(_, _, _)
Pick(rows, keep, i) ==
    IF i > Len(rows) THEN <<>>
    ELSE (IF i \in keep THEN <<rows[i]>> ELSE <<>>) \o Pick(rows, keep, i + 1)

DropDuplicatesFirst(rows) == Pick(rows, KeptFirst(rows), 1)
DropDuplicatesLast(rows) == Pick(rows, KeptLast(rows), 1)

RECURSIVE InsertByTs(_, _)
InsertByTs(r, sorted) ==
    IF sorted = <<>> THEN <<r>>
    ELSE IF r.ts < Head(sorted).ts THEN <<r>> \o sorted
    ELSE <<Head(sorted)>> \o InsertByTs(r, Tail(sorted))

RECURSIVE SortValues(_)
SortValues(rows) ==
    IF rows = <<>> THEN <<>>
    ELSE InsertByTs(rows[Len(rows)], SortValues(SubSeq(rows, 1, Len(rows) - 1)))

NoFile == [exists |-> FALSE, rows |-> <<>>]
File(rows) == [exists |-> TRUE, rows |-> rows]

NoRange == [set |-> FALSE, lo |-> 0, hi |-> 0]
Range(lo, hi) == [set |-> TRUE, lo |-> lo, hi |-> hi]

-----------------------------------------------------------------------------
(* The upstream fetch capability *)

RowsOver(S, n) == UNION {[1..k -> S] : k \in 0..n}

RECURSIVE Stamp(_, _)
Stamp(days, ver) ==
    IF days = <<>> THEN <<>>
    ELSE <<[ts |-> Head(days), ver |-> ver]>> \o Stamp(Tail(days), ver)

InWindow(d, w) == w.lo <= d /\ d <= w.hi

\* what the provider returns for one window: its rows of that window, in its order
Serve(w) == Stamp(SelectSeq(upstream.rows, LAMBDA d : InWindow(d, w)), upstream.ver)

\* the whole dataset (IPMA's CSV)
ServeAll == Stamp(upstream.rows, upstream.ver)

-----------------------------------------------------------------------------
(* Fetch planners *)

Window(lo, hi) == [lo |-> lo, hi |-> hi]

\* chunk_dates with the loop test after the body: a first chunk is always yielded
RECURSIVE ChunkDatesTestAfter(_, _, _)
ChunkDatesTestAfter(current, end, chunk_days) ==
    LET chunk_end == Min(current + chunk_days - 1, end)
    IN  <<Window(current, chunk_end)>> \o
        (IF chunk_end + 1 <= end
         THEN ChunkDatesTestAfter(chunk_end + 1, end, chunk_days)
         ELSE <<>>)

\* chunk_dates(start_date, end_date, chunk_days)
RECURSIVE ChunkDates(_, _, _)
ChunkDates(current, end, chunk_days) ==
    IF current <= end
    THEN LET chunk_end == Min(current + chunk_days - 1, end)
         IN  <<Window(current, chunk_end)>> \o ChunkDates(chunk_end + 1, end, chunk_days)
    ELSE <<>>

\* update_nasa.main: while cur <= end, 6-month chunks
RECURSIVE NasaChunks(_, _)
NasaChunks(cur, end) ==
    IF cur <= end
    THEN LET chunk_end == Min(AddMonths(cur, NASA_MONTHS) - 1, end)
         IN  <<Window(cur, chunk_end)>> \o NasaChunks(chunk_end + 1, end)
    ELSE <<>>

\* legacy update_era5.main: while cur <= end_date, chunk_end = cur + 30 days
RECURSIVE LegacyChunks(_, _)
LegacyChunks(cur, end_date) ==
    IF cur <= end_date
    THEN LET chunk_end == Min(cur + LEGACY_STEP, end_date)
         IN  <<Window(cur, chunk_end)>> \o LegacyChunks(chunk_end + 1, end_date)
    ELSE <<>>

\* fetch_range: the days of date_range(start, end) grouped by (year, month)
ByYm(start, end) ==
    [k \in {MonthOf(d) : d \in start..end} |-> {d \in start..end : MonthOf(d) = k}]

RECURSIVE SortedItems(_, _)
SortedItems(by_ym, keys) ==
    IF keys = {} THEN <<>>
    ELSE LET k == CHOOSE x \in keys : \A y \in keys : x <= y
             day_list == by_ym[k]
             first == CHOOSE d \in day_list : \A e \in day_list : d <= e
             last == CHOOSE d \in day_list : \A e \in day_list : e <= d
         IN  <<Window(first, last)>> \o SortedItems(by_ym, keys \ {k})

Era5Months(start, end) == SortedItems(ByYm(start, end), DOMAIN ByYm(start, end))

\* if start_date > end_date: nothing to fetch
EmptyRange(start_date, end_date) == start_date > end_date

\* update_nasa.main compares the "%Y%m%d" strings
NasaEmptyRange(start_date, end_date) == Ymd(start_date) > Ymd(end_date)

-----------------------------------------------------------------------------
(* Bookkeeping shared by the runs *)

\* the windows the run that just ended skipped although it persisted rows of
\* later dates
Owed ==
    IF wrote
    THEN {w \in skipped : \E i \in DOMAIN lastBatch : lastBatch[i].ts > w.hi}
    ELSE {}

BeginRun(r, p) ==
    /\ pc' = "fetch"
    /\ range' = r
    /\ plan' = p
    /\ wi' = 1
    /\ frames' = <<>>
    /\ requests' = <<>>
    /\ doneFiles' = {}
    /\ anyFailed' = FALSE
    /\ skipped' = {}
    /\ served' = TRUE
    /\ status' = "running"
    /\ wrote' = FALSE
    /\ msg' = ""
    /\ prevStore' = store
    /\ owed' = Owed
    /\ lastBatch' = <<>>
    /\ repeat' = (envSame /\ argv' = argv)
    /\ UNCHANGED sideVars
    /\ UNCHANGED <<prov, today, upstream, store, disk, envSame>>

\* a run that ends before its fetch loop
EndAtStart(r, st, m) ==
    /\ pc' = "idle"
    /\ range' = r
    /\ plan' = <<>>
    /\ wi' = 1
    /\ frames' = <<>>
    /\ requests' = <<>>
    /\ doneFiles' = {}
    /\ anyFailed' = FALSE
    /\ skipped' = {}
    /\ served' = TRUE
    /\ status' = st
    /\ wrote' = FALSE
    /\ msg' = m
    /\ prevStore' = store
    /\ owed' = Owed
    /\ lastBatch' = <<>>
    /\ repeat' = (envSame /\ argv' = argv)
    /\ envSame' = (st = "returned")
    /\ UNCHANGED sideVars
    /\ UNCHANGED <<prov, today, upstream, store, disk>>

\* the run returns without touching the store
Return(m) ==
    /\ pc' = "idle"
    /\ status' = "returned"
    /\ msg' = m
    /\ envSame' = served
    /\ UNCHANGED <<store, wrote, lastBatch>>

\* df_all.to_csv(CSV_FILE)
Save(df_all, df_new, m) ==
    /\ pc' = "idle"
    /\ status' = "returned"
    /\ msg' = m
    /\ store' = File(df_all)
    /\ wrote' = TRUE
    /\ lastBatch' = df_new
    /\ envSame' = served

-----------------------------------------------------------------------------
(* scripts/update_era5.py *)

\* _process_downloaded_nc: groupby("date") gives one record per distinct date,
\* in ascending date order
ProcessDownloadedNc(samples) == SortValues(DropDuplicatesFirst(samples))

Era5File(w) == <<"tmp", MonthOf(w.lo)>>

Era5Start ==
    /\ prov = "era5" /\ pc = "idle"
    /\ argv' = <<>>
    /\ LET end_date == today - ERA5_LAG
           start_date == IF store.exists /\ store.rows # <<>>
                         THEN MaxTs(store.rows) + 1 ELSE Epoch
       IN  IF EmptyRange(start_date, end_date)
           THEN EndAtStart(Range(start_date, end_date), "returned",
                           "Nothing new to fetch for ERA5.")
           ELSE BeginRun(Range(start_date, end_date), Era5Months(start_date, end_date))

\* one iteration of fetch_range's loop; "raise": the download raises, "small":
\* the file is below 10_000 bytes, "badnc": processing raises, "ok": parsed
Era5FetchMonth ==
    /\ prov = "era5" /\ pc = "fetch" /\ wi <= Len(plan)
    /\ \E out \in {"raise", "small", "badnc", "ok"} :
         LET w == plan[wi]
             df_month == ProcessDownloadedNc(Serve(w))
         IN  /\ requests' = Append(requests, w)
             /\ disk' = IF out = "raise" THEN disk ELSE disk \cup {Era5File(w)}
             /\ doneFiles' = IF out = "raise" THEN doneFiles
                             ELSE doneFiles \cup {Era5File(w)}
             /\ frames' = IF out = "ok" /\ df_month # <<>>
                          THEN Append(frames, df_month) ELSE frames
             /\ anyFailed' = (anyFailed \/ out # "ok")
             /\ skipped' = IF out # "ok" THEN skipped \cup {plan[wi]} ELSE skipped
             /\ served' = (served /\ out = "ok")
    /\ wi' = wi + 1
    /\ UNCHANGED sideVars
    /\ UNCHANGED <<prov, today, upstream, store, pc, argv, range, plan, status,
                   wrote, msg, prevStore, owed, lastBatch, envSame, repeat>>

\* the end of fetch_range (finally: rmtree) and the merge of main
Era5Finish ==
    /\ prov = "era5" /\ pc = "fetch" /\ wi > Len(plan)
    /\ disk' = {f \in disk : f[1] # "tmp"}
    /\ LET df_new == DropDuplicatesFirst(Concat(frames))
           df_old == store.rows
           df_all == IF df_old = <<>> THEN df_new
                     ELSE DropDuplicatesLast(df_old \o df_new)
       IN  IF df_new = <<>>
           THEN Return("No new ERA5 data parsed.")
           ELSE Save(SortValues(df_all), df_new, "Updated era5_data.csv")
    /\ UNCHANGED sideVars
    /\ UNCHANGED <<prov, today, upstream, argv, range, plan, wi, frames, requests,
                   doneFiles, anyFailed, skipped, served, prevStore, owed, repeat>>

-----------------------------------------------------------------------------
(* scripts/update_nasa.py *)

NasaStart ==
    /\ prov = "nasa" /\ pc = "idle"
    /\ argv' = <<>>
    /\ IF store.exists /\ store.rows = <<>>
       THEN \* df_old["datetime"].max().date() on an empty column raises
            EndAtStart(NoRange, "crash", "")
       ELSE LET end_date == today - NASA_LAG
                start_date == IF store.exists THEN MaxTs(store.rows) + 1 ELSE Epoch
            IN  IF NasaEmptyRange(start_date, end_date)
                THEN EndAtStart(Range(start_date, end_date), "returned",
                                "No new data available from NASA POWER.")
                ELSE BeginRun(Range(start_date, end_date),
                              NasaChunks(start_date, end_date))

\* one iteration of the while loop: fetch_data raises, or its frame is appended
NasaFetchChunk ==
    /\ prov = "nasa" /\ pc = "fetch" /\ wi <= Len(plan)
    /\ \E out \in {"raise", "ok"} :
         /\ requests' = Append(requests, plan[wi])
         /\ frames' = IF out = "ok" THEN Append(frames, Serve(plan[wi])) ELSE frames
         /\ anyFailed' = (anyFailed \/ out = "raise")
         /\ skipped' = IF out = "raise" THEN skipped \cup {plan[wi]} ELSE skipped
         /\ served' = (served /\ out = "ok")
    /\ wi' = wi + 1
    /\ UNCHANGED sideVars
    /\ UNCHANGED <<prov, today, upstream, store, pc, argv, range, plan, disk,
                   doneFiles, status, wrote, msg, prevStore, owed, lastBatch, envSame,
                   repeat>>

NasaFinish ==
    /\ prov = "nasa" /\ pc = "fetch" /\ wi > Len(plan)
    /\ IF frames # <<>>
       THEN LET df_new == Concat(frames)
                df_all == DropDuplicatesLast(store.rows \o df_new)
            IN  Save(df_all, df_new, "Updated nasa_power_data.csv")
       ELSE Return("No new NASA POWER data fetched.")
    /\ UNCHANGED sideVars
    /\ UNCHANGED <<prov, today, upstream, argv, range, plan, wi, frames, requests,
                   disk, doneFiles, anyFailed, skipped, served, prevStore, owed, repeat>>

-----------------------------------------------------------------------------
(* scripts/update_openmeteo.py *)

\* main(start_date=None, end_date=None); the store is not read here
OpenMeteoStart ==
    /\ prov = "openmeteo" /\ pc = "idle"
    /\ \E a \in ArgChoices :
         LET start_date == IF Len(a) >= 1 THEN a[1] ELSE Epoch
             end_date == IF Len(a) >= 2 THEN a[2] ELSE today - OPENMETEO_LAG
         IN  /\ argv' = a
             /\ BeginRun(Range(start_date, end_date),
                         ChunkDates(start_date, end_date, CHUNK_DAYS))

\* one iteration of the for loop; "raise": requests raises (nothing catches
\* it), "nohourly": the payload has no hourly block, "ok": a frame
OpenMeteoFetchChunk ==
    /\ prov = "openmeteo" /\ pc = "fetch" /\ wi <= Len(plan)
    /\ \E out \in {"raise", "nohourly", "ok"} :
         LET chunk_df == IF out = "ok" THEN Serve(plan[wi]) ELSE <<>>
         IN  /\ requests' = Append(requests, plan[wi])
             /\ frames' = IF chunk_df # <<>> THEN Append(frames, chunk_df) ELSE frames
             /\ anyFailed' = (anyFailed \/ out = "raise")
             /\ skipped' = IF out = "raise" THEN skipped \cup {plan[wi]} ELSE skipped
             /\ served' = (served /\ out = "ok")
             /\ pc' = IF out = "raise" THEN "idle" ELSE "fetch"
             /\ status' = IF out = "raise" THEN "crash" ELSE status
             /\ envSame' = IF out = "raise" THEN FALSE ELSE envSame
    /\ wi' = wi + 1
    /\ UNCHANGED sideVars
    /\ UNCHANGED <<prov, today, upstream, store, argv, range, plan, disk,
                   doneFiles, wrote, msg, prevStore, owed, lastBatch, repeat>>

\* save_incremental(df)
SaveIncremental(old, df) ==
    IF old.exists
    THEN SortValues(DropDuplicatesFirst(old.rows \o df))
    ELSE df

\* the rest of main: concat, add_uv_to_df (the batch has no uv_index column, so
\* the UV fetch is made; "raise": it raises), sort_values, save_incremental
OpenMeteoFinish ==
    /\ prov = "openmeteo" /\ pc = "fetch" /\ wi > Len(plan)
    /\ IF frames = <<>>
       THEN Return("[Open-Meteo] No data fetched.")
       ELSE \E uv \in {"raise", "empty", "ok"} :
              IF uv = "raise"
              THEN /\ pc' = "idle"
                   /\ status' = "crash"
                   /\ envSame' = FALSE
                   /\ UNCHANGED <<store, wrote, msg, lastBatch>>
              ELSE LET df == SortValues(Concat(frames))
                   IN  Save(SaveIncremental(store, df), df, "[Open-Meteo] Saved")
    /\ UNCHANGED sideVars
    /\ UNCHANGED <<prov, today, upstream, argv, range, plan, wi, frames, requests,
                   disk, doneFiles, anyFailed, skipped, served, prevStore, owed, repeat>>

-----------------------------------------------------------------------------
(* update_era5.py (legacy) *)

LegacyFile == <<"cwd", 0>>

\* Stores the legacy script may find: it cannot create one itself (see
\* LegacyFetchChunk), so an existing era5_data.csv is a given.
LegacySeeds == {File(<<[ts |-> 0, ver |-> 0]>>), File(<<[ts |-> 47, ver |-> 0]>>)}

LegacyStart ==
    /\ prov = "era5_legacy" /\ pc = "idle"
    /\ argv' = <<>>
    /\ LET end_date == today - LEGACY_LAG
           start_date == IF store.exists THEN MaxTs(store.rows) + 1 ELSE Epoch
       IN  BeginRun(Range(start_date, end_date), LegacyChunks(start_date, end_date))

\* fetch_chunk: the download is written to "era5_data.nc" in the working
\* directory, never to temp_filename, so when retrieve does not raise the
\* existence check does; the finally removes temp_dir only.  main then breaks.
LegacyFetchChunk ==
    /\ prov = "era5_legacy" /\ pc = "fetch" /\ wi <= Len(plan)
    /\ \E out \in {"raise", "notfound"} :
         /\ disk' = IF out = "raise" THEN disk ELSE disk \cup {LegacyFile}
         /\ doneFiles' = IF out = "raise" THEN doneFiles
                         ELSE doneFiles \cup {LegacyFile}
    /\ requests' = Append(requests, plan[wi])
    /\ anyFailed' = TRUE
    /\ skipped' = skipped \cup {plan[wi]}
    /\ served' = FALSE
    /\ wi' = Len(plan) + 1
    /\ UNCHANGED sideVars
    /\ UNCHANGED <<prov, today, upstream, store, pc, argv, range, plan, frames,
                   status, wrote, msg, prevStore, owed, lastBatch, envSame, repeat>>

LegacyFinish ==
    /\ prov = "era5_legacy" /\ pc = "fetch" /\ wi > Len(plan)
    /\ IF frames # <<>>
       THEN LET df_new == Concat(frames)
                df_all == DropDuplicatesFirst(store.rows \o df_new)
            IN  Save(df_all, df_new, "Updated era5_data.csv")
       ELSE Return("No new ERA5 data available.")
    /\ UNCHANGED sideVars
    /\ UNCHANGED <<prov, today, upstream, argv, range, plan, wi, frames, requests,
                   disk, doneFiles, anyFailed, skipped, served, prevStore, owed, repeat>>

-----------------------------------------------------------------------------
(* update_ipma.py *)

\* main: read the provider's CSV ("raise": read_csv raises), merge, write
IpmaMain ==
    /\ prov = "ipma" /\ pc = "idle"
    /\ argv' = <<>>
    /\ \E out \in {"raise", "ok"} :
         LET df_new == ServeAll
             df == IF store.exists
                   THEN SortValues(DropDuplicatesFirst(store.rows \o df_new))
                   ELSE df_new
         IN  /\ status' = IF out = "raise" THEN "crash" ELSE "returned"
             /\ store' = IF out = "raise" THEN store ELSE File(df)
             /\ wrote' = (out = "ok")
             /\ msg' = IF out = "raise" THEN "" ELSE "[IPMA] Saved"
             /\ lastBatch' = IF out = "raise" THEN <<>> ELSE df_new
             /\ envSame' = (out = "ok")
             /\ served' = (out = "ok")
    /\ prevStore' = store
    /\ owed' = Owed
    /\ repeat' = (envSame /\ argv' = argv)
    /\ range' = NoRange
    /\ plan' = <<>>
    /\ wi' = 1
    /\ frames' = <<>>
    /\ requests' = <<>>
    /\ doneFiles' = {}
    /\ anyFailed' = FALSE
    /\ skipped' = {}
    /\ UNCHANGED sideVars
    /\ UNCHANGED <<prov, today, upstream, pc, disk>>

-----------------------------------------------------------------------------
(* The environment *)

\* the calendar advances
Tick ==
    /\ pc = "idle"
    /\ \E t \in Todays(prov) : t > today /\ today' = t
    /\ envSame' = FALSE
    /\ UNCHANGED sideVars
    /\ UNCHANGED <<prov, upstream, store, pc, argv, range, plan, wi, frames,
                   requests, disk, doneFiles, anyFailed, skipped, served, status, wrote,
                   msg, prevStore, owed, lastBatch, repeat>>

\* the provider publishes a new edition of its dataset
Publish ==
    /\ pc = "idle"
    /\ upstream.ver < MaxVer
    /\ \E rows \in RowsOver(DataDays(prov), MaxRows) :
         upstream' = [rows |-> rows, ver |-> upstream.ver + 1]
    /\ envSame' = FALSE
    /\ UNCHANGED sideVars
    /\ UNCHANGED <<prov, today, store, pc, argv, range, plan, wi, frames, requests,
                   disk, doneFiles, anyFailed, skipped, served, status, wrote, msg,
                   prevStore, owed, lastBatch, repeat>>

-----------------------------------------------------------------------------

(* add_uv_to_df (scripts/update_openmeteo.py) as a function of its inputs *)

MaxUvRows == 2
HOURS_PER_DAY == 24

\* datetimes (hours since the epoch) of primary rows: two on day 0, one on day 1
UvDatetimes == {0, 23, 24}
UvValues == {"a", "b"}
NaN == "NaN"

\* primary batches: without the column every uv is missing; main passes at least one row
UvBatches ==
    {[hasUv |-> FALSE, rows |-> r] :
        r \in RowsOver([dt : UvDatetimes, uv : {NaN}], MaxUvRows) \ {<<>>}}
    \cup
    {[hasUv |-> TRUE, rows |-> r] :
        r \in RowsOver([dt : UvDatetimes, uv : UvValues \cup {NaN}], MaxUvRows) \ {<<>>}}

\* frames fetch_nasa_uv_daily may return
UvFrames == RowsOver([date : {0, 1}, uv : UvValues], MaxUvRows)

\* df['datetime'].dt.date
DateOf(dt) == dt \div HOURS_PER_DAY

\* uv_df.set_index('date')['uv_index'].to_dict(): the last row of a date stays
UvMap(uv_df) ==
    [d \in {uv_df[i].date : i \in DOMAIN uv_df} |->
        uv_df[CHOOSE i \in DOMAIN uv_df :
                 /\ uv_df[i].date = d
                 /\ \A j \in DOMAIN uv_df : uv_df[j].date = d => j <= i].uv]

\* df['date'].map(uv_map): a date without a key maps to missing
MapUv(rows, uv_map) ==
    [i \in DOMAIN rows |->
        [dt |-> rows[i].dt,
         uv |-> IF DateOf(rows[i].dt) \in DOMAIN uv_map
                THEN uv_map[DateOf(rows[i].dt)] ELSE NaN]]

\* df['uv_index'].notna().any()
NotnaAny(df) == \E i \in DOMAIN df.rows : df.rows[i].uv # NaN

\* the guard of add_uv_to_df's early return
UvPopulated(df) == df.hasUv /\ NotnaAny(df)

\* add_uv_to_df(df, start_date, end_date): [df: the result, calls: UV fetches]
AddUvToDf(df, uv_df) ==
    IF UvPopulated(df)
    THEN [df |-> df, calls |-> 0]
    ELSE IF uv_df = <<>>
    THEN [df |-> [hasUv |-> TRUE,
                  rows |-> [i \in DOMAIN df.rows |-> [dt |-> df.rows[i].dt, uv |-> NaN]]],
          calls |-> 1]
    ELSE [df |-> [hasUv |-> TRUE, rows |-> MapUv(df.rows, UvMap(uv_df))],
          calls |-> 1]

CallAddUv ==
    /\ uvPc = "in"
    /\ uvPc' = "out"
    /\ uvOut' = AddUvToDf(uvDf, uvSrc).df
    /\ uvCalls' = AddUvToDf(uvDf, uvSrc).calls
    /\ UNCHANGED <<uvDf, uvSrc>>
    /\ UNCHANGED <<runVars, allVars, aggVars>>

-----------------------------------------------------------------------------
(* scripts/update_all.py *)

MaxExit == 4

\* return codes of a child process: 0 is success
ExitCodes == 0..MaxExit

scripts == <<"update_era5.py", "update_nasa.py", "update_openmeteo.py">>

\* subprocess.run(..., check=True) raises CalledProcessError on a non-zero
\* return code; run_script catches it and prints
RunScriptAbortOnFailure(script_name, rc) ==
    [raised |-> rc # 0,
     line |-> IF rc = 0 THEN "completed successfully." ELSE "failed with error"]

RunScript(script_name, rc) ==
    [raised |-> FALSE,
     line |-> IF rc = 0 THEN "completed successfully." ELSE "failed with error"]

InitAll ==
    /\ allPc = "start"
    /\ si = 1
    /\ invoked = <<>>
    /\ log = <<>>

\* main up to the loop: the RUN STARTED banner
AllStart ==
    /\ allPc = "start"
    /\ allPc' = "loop"
    /\ UNCHANGED <<si, invoked, log>>
    /\ UNCHANGED <<runVars, uvVars, aggVars>>

\* one iteration of main's loop: run_script(script), the child ending with rc
AllRunScript ==
    /\ allPc = "loop" /\ si <= Len(scripts)
    /\ \E rc \in ExitCodes :
         LET script == scripts[si]
             r == RunScript(script, rc)
         IN  /\ invoked' = Append(invoked, script)
             /\ log' = Append(log, [script |-> script, rc |-> rc, line |-> r.line])
             /\ allPc' = IF r.raised THEN "abort" ELSE "loop"
             /\ si' = IF r.raised THEN si ELSE si + 1
    /\ UNCHANGED <<runVars, uvVars, aggVars>>

\* main after the loop: the RUN FINISHED banner
AllFinish ==
    /\ allPc = "loop" /\ si > Len(scripts)
    /\ allPc' = "done"
    /\ UNCHANGED <<si, invoked, log>>
    /\ UNCHANGED <<runVars, uvVars, aggVars>>

-----------------------------------------------------------------------------
(* _process_downloaded_nc (scripts/update_era5.py) from the column selection *)
(* on: a function of the samples read from the file                         *)

MaxAggRows == 2
MaxAggCols == 2

KELVIN_CENTI == 27315
PA_PER_KPA == 1000
MM_PER_M == 1000
J_PER_MJ == 1000000

\* the canonical fields
Fields == {"temperature", "dewpoint", "pressure", "wind_speed",
           "precipitation", "radiation"}

DailyAggAllMean == [k \in Fields |-> "mean"]

DAILY_AGG ==
    [k \in Fields |-> IF k \in {"precipitation", "radiation"} THEN "sum" ELSE "mean"]

\* columns a frame may carry besides time: the fields, and one that is not kept
AggColumns == Fields \cup {"u_wind"}

\* sample times in hours since the epoch: two on day 0, one on day 1
AggTimes == {0, 12, 24}
AggValues == {1, 3}

\* frames with at least one field, as a download of PARAMS gives
AggBatches ==
    UNION {[cols : {c}, rows : RowsOver([time : AggTimes, val : [c -> AggValues]], MaxAggRows)] :
              c \in {c \in SUBSET AggColumns :
                        /\ Cardinality(c) \in 1..MaxAggCols
                        /\ c \cap Fields # {}}}

\* an exact number: num / den
Q(n, d) == [num |-> n, den |-> d]

RECURSIVE SumSeq(_)
SumSeq(vs) == IF vs = <<>> THEN 0 ELSE Head(vs) + SumSeq(Tail(vs))

\* the reduction "sum" or "mean" over the values of one group
Reduce(how, vs) ==
    IF how = "sum" THEN Q(SumSeq(vs), 1) ELSE Q(SumSeq(vs), Len(vs))

\* the unit conversions applied to df_daily
Convert(k, q) ==
    CASE k \in {"temperature", "dewpoint"} ->
             Q(q.num * 100 - KELVIN_CENTI * q.den, q.den * 100)
      [] k = "pressure" -> Q(q.num, q.den * PA_PER_KPA)
      [] k = "precipitation" -> Q(q.num * MM_PER_M, q.den)
      [] k = "radiation" -> Q(q.num, q.den * J_PER_MJ)
      [] OTHER -> q

\* pd.to_datetime(df["time"]).dt.normalize()
Normalize(time) == time \div HOURS_PER_DAY

\* the group keys of groupby("date"), ascending
RECURSIVE GroupKeys(_)
GroupKeys(dates) ==
    IF dates = {} THEN <<>>
    ELSE LET d == CHOOSE x \in dates : \A y \in dates : x <= y
         IN  <<d>> \o GroupKeys(dates \ {d})

\* the values of column k in the rows of date d, in row order
RECURSIVE GroupValues(_, _, _)
GroupValues(rows, k, d) ==
    IF rows = <<>> THEN <<>>
    ELSE (IF Normalize(Head(rows).time) = d THEN <<Head(rows).val[k]>> ELSE <<>>)
         \o GroupValues(Tail(rows), k, d)

\* df[keep], groupby("date").agg(agg), the conversions and the source column
DailyAggregate(df) ==
    LET keep == {k \in Fields : k \in df.cols}
        agg == [k \in keep |-> DAILY_AGG[k]]
        keys == GroupKeys({Normalize(df.rows[i].time) : i \in DOMAIN df.rows})
    IN  [g \in DOMAIN keys |->
            [date |-> keys[g],
             val |-> [k \in DOMAIN agg |->
                        Convert(k, Reduce(agg[k], GroupValues(df.rows, k, keys[g])))],
             source |-> "era5"]]

InitAgg ==
    /\ aggDf = [cols |-> {"temperature"}, rows |-> <<>>]
    /\ aggOut = <<>>
    /\ aggPc = "in"

CallProcessNc ==
    /\ aggPc = "in"
    /\ aggPc' = "out"
    /\ aggOut' = DailyAggregate(aggDf)
    /\ UNCHANGED aggDf
    /\ UNCHANGED <<runVars, uvVars, allVars>>

-----------------------------------------------------------------------------

InitRun ==
    /\ prov \in Providers
    /\ today \in Todays(prov) /\ \A t \in Todays(prov) : today <= t
    /\ upstream \in [rows : RowsOver(DataDays(prov), MaxRows), ver : {1}]
    /\ store \in (IF prov = "era5_legacy" THEN LegacySeeds ELSE {}) \cup {NoFile}
    /\ pc = "idle"
    /\ argv = <<>>
    /\ range = NoRange
    /\ plan = <<>>
    /\ wi = 1
    /\ frames = <<>>
    /\ requests = <<>>
    /\ disk = {}
    /\ doneFiles = {}
    /\ anyFailed = FALSE
    /\ skipped = {}
    /\ served = TRUE
    /\ status = "none"
    /\ wrote = FALSE
    /\ msg = ""
    /\ prevStore = NoFile
    /\ owed = {}
    /\ lastBatch = <<>>
    /\ envSame = FALSE
    /\ repeat = FALSE

InitUv ==
    /\ uvDf = [hasUv |-> FALSE, rows |-> <<[dt |-> 0, uv |-> NaN]>>]
    /\ uvSrc = <<>>
    /\ uvOut = uvDf
    /\ uvCalls = 0
    /\ uvPc = "in"

Init == InitRun /\ InitUv /\ InitAll /\ InitAgg

Next ==
    \/ Era5Start
    \/ Era5FetchMonth
    \/ Era5Finish
    \/ NasaStart
    \/ NasaFetchChunk
    \/ NasaFinish
    \/ OpenMeteoStart
    \/ OpenMeteoFetchChunk
    \/ OpenMeteoFinish
    \/ LegacyStart
    \/ LegacyFetchChunk
    \/ LegacyFinish
    \/ IpmaMain
    \/ Tick
    \/ Publish

\* the update scripts, run again and again as the calendar and the upstream move
Spec == Init /\ [][Next]_vars

\* add_uv_to_df applied once to each batch and each UV frame
InitAddUv ==
    /\ InitRun
    /\ prov = "openmeteo"
    /\ upstream.rows = <<>>
    /\ uvDf \in UvBatches
    /\ uvSrc \in UvFrames
    /\ uvOut = uvDf
    /\ uvCalls = 0
    /\ uvPc = "in"
    /\ InitAll
    /\ InitAgg

NextAddUv == CallAddUv

SpecAddUv == InitAddUv /\ [][NextAddUv]_vars

\* update_all.main run once, each child ending with any return code
InitUpdateAll ==
    /\ InitRun
    /\ prov = "era5"
    /\ upstream.rows = <<>>
    /\ InitUv
    /\ InitAll
    /\ InitAgg

NextUpdateAll ==
    \/ AllStart
    \/ AllRunScript
    \/ AllFinish

SpecUpdateAll == InitUpdateAll /\ [][NextUpdateAll]_vars

\* _process_downloaded_nc applied once to each frame of samples
InitDailyAgg ==
    /\ InitRun
    /\ prov = "era5"
    /\ upstream.rows = <<>>
    /\ InitUv
    /\ InitAll
    /\ aggDf \in AggBatches
    /\ aggOut = <<>>
    /\ aggPc = "in"

NextDailyAgg == CallProcessNc

SpecDailyAgg == InitDailyAgg /\ [][NextDailyAgg]_vars

-----------------------------------------------------------------------------
(* Properties *)

Sorted(rows) == \A i, j \in DOMAIN rows : i < j => rows[i].ts <= rows[j].ts
Unique(rows) == \A i, j \in DOMAIN rows : i # j => rows[i].ts # rows[j].ts
RunOver == pc = "idle" /\ status \in {"returned", "crash"}

\* C1: the persisted store of every provider never holds two records with the
\* same timestamp, whatever runs came before (the first run included).
DedupInvariant == store.exists => Unique(store.rows)

\* C2: after a run that rewrote the store, every timestamp that was both in the
\* store the run found and in its incoming batch carries the incoming record.
IncomingWins ==
    (RunOver /\ wrote) =>
        \A i \in DOMAIN store.rows :
            (store.rows[i].ts \in TsOf(prevStore.rows) \cap TsOf(lastBatch))
                => \E k \in DOMAIN lastBatch : lastBatch[k] = store.rows[i]

\* C3: a run in which some window failed still requested every window of its
\* plan, ended without failing, and persisted the rows of the windows that
\* succeeded.
ChunkFailureIsolated ==
    (RunOver /\ anyFailed) =>
        /\ status = "returned"
        /\ requests = plan
        /\ TsOf(Concat(frames)) \subseteq TsOf(store.rows)

\* C4: the rows of the persisted store are in ascending timestamp order after
\* every run, whatever the order of the fetched rows.
OrderingInvariant == store.exists => Sorted(store.rows)

\* C5: a run that directly repeats a run, with the same arguments on the same
\* day, an unchanged upstream and every fetch of both runs answered with the
\* provider's data, leaves the store as the first run left it: same rows, same
\* order, same values.
RunIdempotent ==
    (RunOver /\ status = "returned" /\ repeat /\ served) => store = prevStore

Tiles(p, lo, hi) ==
    /\ p # <<>>
    /\ p[1].lo = lo
    /\ p[Len(p)].hi = hi
    /\ \A i \in DOMAIN p : p[i].lo <= p[i].hi
    /\ \A i \in 1..(Len(p) - 1) : p[i + 1].lo = p[i].hi + 1

\* the largest window of each planner: a calendar month, 6 months, 30 days
WithinMaxSpan(w) ==
    CASE prov = "era5" -> MonthOf(w.lo) = MonthOf(w.hi)
      [] prov = "nasa" -> w.hi < AddMonths(w.lo, NASA_MONTHS)
      [] prov = "openmeteo" -> w.hi - w.lo + 1 <= CHUNK_DAYS
      [] prov = "era5_legacy" -> w.hi - w.lo + 1 <= LEGACY_STEP
      [] OTHER -> TRUE

\* C6: for a range with start <= end the planned windows are in order,
\* disjoint and contiguous, run from start to end, and none is longer than
\* the provider's maximum window.
WindowTiling ==
    (range.set /\ range.lo <= range.hi) =>
        /\ Tiles(plan, range.lo, range.hi)
        /\ \A i \in DOMAIN plan : WithinMaxSpan(plan[i])

\* C7: the first date a run requests (no start given on the command line) is
\* one day after the newest timestamp of the existing store, and the epoch
\* 2024-01-01 when there is no store.
FetchStartDerived ==
    (pc = "fetch" /\ argv = <<>> /\ requests # <<>>) =>
        requests[1].lo = IF store.exists /\ store.rows # <<>>
                         THEN MaxTs(store.rows) + 1 ELSE Epoch

\* messages with which a run reports that there is nothing to update
NothingToUpdate ==
    {"Nothing new to fetch for ERA5.", "No new data available from NASA POWER.",
     "[Open-Meteo] No data fetched.", "No new ERA5 data available."}

\* C8: a run whose computed start date is after its end date makes no fetch
\* call, leaves the store as it found it, and returns normally with a
\* nothing-to-update message.
EmptyRangeShortCircuit ==
    (range.set /\ range.lo > range.hi) =>
        /\ requests = <<>>
        /\ store = prevStore
        /\ status # "crash"
        /\ pc = "idle" => (status = "returned" /\ ~wrote /\ msg \in NothingToUpdate)

\* C8 witness: an ERA5 run found its store current and returned
EmptyRangeRun ==
    /\ prov = "era5" /\ pc = "idle" /\ status = "returned"
    /\ store.exists /\ range.set /\ range.lo > range.hi

\* C10: a file written by the download of a chunk is gone once the processing
\* of that chunk has ended.
ArtifactsRemoved == doneFiles \cap disk = {}

-----------------------------------------------------------------------------
(* Properties of add_uv_to_df *)

UvDense(df) == df.hasUv /\ \A i \in DOMAIN df.rows : df.rows[i].uv # NaN

\* C9: add_uv_to_df returns the batch as it is, without a UV fetch, when every
\* row has a uv_index, and in every other case fetches and joins by date.
EnrichmentCondition ==
    uvPc = "out" =>
        IF UvDense(uvDf)
        THEN uvOut = uvDf /\ uvCalls = 0
        ELSE /\ uvCalls = 1
             /\ uvOut = [hasUv |-> TRUE, rows |-> MapUv(uvDf.rows, UvMap(uvSrc))]

-----------------------------------------------------------------------------
(* Properties of update_all.main *)

\* C11: update_all.main hands every script of its list to a child process
\* exactly once and in list order, and a child that ends with a non-zero
\* return code does not stop the scripts after it from being run.
OrchestratorIsolation ==
    /\ allPc # "abort"
    /\ Len(invoked) <= Len(scripts)
    /\ \A i \in DOMAIN invoked : invoked[i] = scripts[i]
    /\ allPc = "loop" => Len(invoked) = si - 1
    /\ allPc = "done" => invoked = scripts

\* C11 witness: the first script failed and the whole list was still run
AllRunDespiteFailure ==
    /\ allPc = "done"
    /\ invoked = scripts
    /\ log[1].rc # 0
    /\ log[2].rc = 0

-----------------------------------------------------------------------------
(* Properties of _process_downloaded_nc *)

\* the rows of the input that fall on date d
RowsOn(d) == {i \in DOMAIN aggDf.rows : aggDf.rows[i].time \div HOURS_PER_DAY = d}

RECURSIVE Total(_, _)
Total(I, k) ==
    IF I = {} THEN 0
    ELSE LET i == CHOOSE x \in I : TRUE
         IN  aggDf.rows[i].val[k] + Total(I \ {i}, k)

SameNumber(a, b) == a.num * b.den = b.num * a.den

\* an emitted value taken back to the unit of the samples
Unconverted(k, q) ==
    CASE k \in {"temperature", "dewpoint"} -> Q(q.num * 100 + 27315 * q.den, q.den * 100)
      [] k = "pressure" -> Q(q.num * 1000, q.den)
      [] k = "precipitation" -> Q(q.num, q.den * 1000)
      [] k = "radiation" -> Q(q.num * 1000000, q.den)
      [] OTHER -> q

\* C12: _process_downloaded_nc emits exactly one record per distinct date of
\* its input; before unit conversion precipitation and radiation are the sum
\* and temperature, dewpoint, pressure and wind_speed the mean of the samples
\* of that date; a field the input does not carry is not in the output.
DailyAggregation ==
    aggPc = "out" =>
        /\ \A d \in {aggDf.rows[i].time \div HOURS_PER_DAY : i \in DOMAIN aggDf.rows} :
              Cardinality({g \in DOMAIN aggOut : aggOut[g].date = d}) = 1
        /\ \A g \in DOMAIN aggOut :
              /\ RowsOn(aggOut[g].date) # {}
              /\ DOMAIN aggOut[g].val = Fields \cap aggDf.cols
              /\ \A k \in DOMAIN aggOut[g].val :
                    LET I == RowsOn(aggOut[g].date)
                        expected == IF k \in {"precipitation", "radiation"}
                                    THEN Q(Total(I, k), 1)
                                    ELSE Q(Total(I, k), Cardinality(I))
                    IN  SameNumber(Unconverted(k, aggOut[g].val[k]), expected)

\* C12 witness: two samples of one date reduced to one record whose
\* precipitation is their sum and whose temperature is their mean
TwoSamplesOneRecord ==
    /\ aggPc = "out"
    /\ aggDf.cols = {"temperature", "precipitation"}
    /\ Len(aggDf.rows) = 2
    /\ aggDf.rows[1].time = 0 /\ aggDf.rows[2].time = 12
    /\ aggDf.rows[1].val["precipitation"] = 1 /\ aggDf.rows[2].val["precipitation"] = 3
    /\ aggDf.rows[1].val["temperature"] = 1 /\ aggDf.rows[2].val["temperature"] = 3
    /\ Len(aggOut) = 1
    /\ aggOut[1].val["precipitation"] = Q(4000, 1)
    /\ aggOut[1].val["temperature"] = Q(400 - 2 * 27315, 200)

-----------------------------------------------------------------------------
(* Properties of consecutive runs *)

\* date d is inside a window this run handed to the upstream fetch
Requested(d) == \E i \in DOMAIN requests : requests[i].lo <= d /\ d <= requests[i].hi

\* C13: when a run of the ERA5 or NASA POWER updater skipped a window whose
\* fetch failed and persisted rows of a later window, the next run requests
\* every date of the skipped window again.
NoPermanentGaps ==
    (prov \in {"era5", "nasa"} /\ RunOver /\ status = "returned") =>
        \A w \in owed : \A d \in w.lo..w.hi : Requested(d)

====
